---- MODULE Spec2Model ----
(***************************************************************************)
(* Model of SGT/data.py: the COCO caption data pipeline.                   *)
(*   Data / Data_test   the sample providers (__init__, __len__,           *)
(*                      __getitem__)                                       *)
(*   Dataloader         get_dataloader (provider + optional Subset) and    *)
(*                      _collate_fn (stack images, pad captions)           *)
(* Strings are sequences of one-character strings, so that str.strip,      *)
(* str.split, int() and str() are computed and not assumed.                *)
(***************************************************************************)
EXTENDS Integers, Sequences, FiniteSets, TLC

VARIABLES
    image_split,    \* argument of Dataloader.get_dataloader
    train_file,     \* <dir>/captions/train_captions.json on disk
    val_file,       \* <dir>/captions/val_captions.json on disk
    subset,         \* Dataloader._subset
    image_paths,    \* Data._image_paths / Data_test._image_paths (glob order)
    unreadable,     \* the image files cv2.imread cannot decode
    captions,       \* Data._captions
    transform_given, \* self._transform is set (None by default in Data, Data_test)
    init_printed,   \* Data.__init__ printed "Caption file ... not found."
    worker,         \* per loader worker: the call it last made and its result
    batch,          \* the list of samples handed to _collate_fn
    collated        \* what _collate_fn returned for batch

vars == <<image_split, train_file, val_file, subset, image_paths, unreadable,
          captions, transform_given, init_printed, worker, batch, collated>>

\* ------------------------------------------------------------------ bounds
MaxImages == 2      \* image files in the split directory
MaxRecords == 2     \* records in a caption file
MaxSubset == 2      \* Dataloader subset size
MaxBatch == 3       \* samples in one batch

\* ------------------------------------------------------- program constants
CLS == 101          \* bert-base-uncased [CLS]
SEP == 102          \* bert-base-uncased [SEP]
UNK == 100          \* bert-base-uncased [UNK]
max_length == 512   \* tokenizer truncation ceiling
padding_value == 0  \* pad_sequence padding value

\* ----------------------------------------------------------------- helpers
Range(s) == {s[i] : i \in 1..Len(s)}

SeqsUpTo(S, n) == UNION {[1..k -> S] : k \in 0..n}

Injective(s) == \A i, j \in 1..Len(s) : s[i] = s[j] => i = j

Max(S) == CHOOSE m \in S : \A x \in S : x <= m

Digits == <<"0", "1", "2", "3", "4", "5", "6", "7", "8", "9">>

\* the characters str.strip() removes (str.isspace); a character with no
\* escape of its own is written as its code point
Whitespace ==
    {" ", "\t", "\n", "\r", "\f", "U+000B", "U+001C", "U+001D", "U+001E",
     "U+001F", "U+0085", "U+00A0", "U+1680", "U+2000", "U+2001", "U+2002",
     "U+2003", "U+2004", "U+2005", "U+2006", "U+2007", "U+2008", "U+2009",
     "U+200A", "U+2028", "U+2029", "U+202F", "U+205F", "U+3000"}

\* the control characters the BERT tokenizer drops from the text
Control ==
    {"\f", "U+000B", "U+001C", "U+001D", "U+001E", "U+001F", "U+0085"}

\* the characters the BERT tokenizer splits words on
TokenWhitespace == Whitespace \ Control

\* str(n) for a non-negative integer: canonical decimal, no leading zeros
RECURSIVE str(_)
str(n) == IF n < 10 THEN <<Digits[n + 1]>>
          ELSE str(n \div 10) \o <<Digits[(n % 10) + 1]>>

DigitValue(c) == CHOOSE d \in 0..9 : Digits[d + 1] = c

\* int(s) for a string of decimal digits (leading zeros ignored)
RECURSIVE int(_)
int(s) == IF Len(s) = 0 THEN 0
          ELSE 10 * int(SubSeq(s, 1, Len(s) - 1)) + DigitValue(s[Len(s)])

\* os.path.basename(p).split('.')[0]: the name up to its first dot
RECURSIVE stem(_)
stem(name) == IF name = <<>> \/ Head(name) = "." THEN <<>>
              ELSE <<Head(name)>> \o stem(Tail(name))

RECURSIVE lstrip(_)
lstrip(s) == IF s # <<>> /\ Head(s) \in Whitespace THEN lstrip(Tail(s)) ELSE s

RECURSIVE rstrip(_)
rstrip(s) == IF s # <<>> /\ s[Len(s)] \in Whitespace
             THEN rstrip(SubSeq(s, 1, Len(s) - 1)) ELSE s

\* str.strip()
strip(s) == lstrip(rstrip(s))

\* the tokenizer's text clean-up and whitespace split of a string into words
RECURSIVE split_words(_, _)
split_words(s, cur) ==
    IF s = <<>> THEN (IF cur = <<>> THEN <<>> ELSE <<cur>>)
    ELSE IF Head(s) \in Control THEN split_words(Tail(s), cur)
    ELSE IF Head(s) \in TokenWhitespace
         THEN (IF cur = <<>> THEN <<>> ELSE <<cur>>) \o split_words(Tail(s), <<>>)
         ELSE split_words(Tail(s), cur \o <<Head(s)>>)

\* the vocabulary entries of bert-base-uncased the captions use; any other
\* word stands for [UNK] here (WordPiece splitting is not modelled)
vocab(word) == IF word = <<"a">> THEN 1037
               ELSE IF word = <<"d", "o", "g">> THEN 3899
               ELSE UNK

\* self.tokenizer(text, truncation=True, max_length=512)["input_ids"].squeeze()
tokenizer(text) ==
    LET words == split_words(text, <<>>)
        ids == [i \in 1..Len(words) |-> vocab(words[i])]
        body == IF Len(ids) > max_length - 2
                THEN SubSeq(ids, 1, max_length - 2) ELSE ids
    IN <<CLS>> \o body \o <<SEP>>

\* ------------------------------------------------------- the data on disk
Workers == {"w1", "w2"}

Splits == {"train2017", "val2017", "test2017"}

jpg == <<".", "j", "p", "g">>

\* "01.jpg" (ID 1, zero-padded as COCO names are), "2.jpg" and "3.jpg"
FileNames == {<<"0", "1">> \o jpg, <<"2">> \o jpg, <<"3">> \o jpg}

\* "a dog" and "\ta\n" (a caption line with its tab and newline)
CaptionStrings == {<<"a", " ", "d", "o", "g">>, <<"\t", "a", "\n">>}

CaptionLists ==
    {<<>>, <<<<"a", " ", "d", "o", "g">>>>,
     <<<<"\t", "a", "\n">>, <<"a", " ", "d", "o", "g">>>>}

RecordIds == {1, 2}

\* {"image_id": n, "captions": [...]}
Records == [image_id : RecordIds, captions : CaptionLists]

Missing == [exists |-> FALSE, records |-> <<>>]

File(recs) == [exists |-> TRUE, records |-> recs]

CaptionFiles == {File(r) : r \in SeqsUpTo(Records, MaxRecords)}

\* the caption files the loader specification draws both files from
LoaderFiles ==
    {Missing, File(<<>>),
     File(<<[image_id |-> 1, captions |-> <<<<"a", " ", "d", "o", "g">>>>]>>),
     File(<<[image_id |-> 2, captions |-> <<<<"\t", "a", "\n">>>>]>>)}

\* glob('<dir>/<split>/*.jpg'): distinct names, in no particular order
ImageDirs == {d \in SeqsUpTo(FileNames, MaxImages) : Injective(d)}

\* ------------------------------------------------------------ Data, Data_test
None == [file |-> <<>>, transformed |-> FALSE]

NoResult == [outcome |-> "none", steps |-> <<>>, path |-> <<>>, matched |-> FALSE,
             resolved |-> <<>>, caption |-> <<>>, image |-> None, n |-> 0]

Idle == [pc |-> "idle", op |-> "none", idx |-> 0, res |-> NoResult]

\* Data.__init__, lines 28-37: the caption set and whether the fallback printed
Data_init(split, tf, vf) ==
    LET f == IF split = "train2017" THEN tf ELSE vf
    IN IF f.exists THEN [captions |-> f.records, printed |-> FALSE]
       ELSE [captions |-> <<>>, printed |-> TRUE]

\* Dataloader.get_dataloader: Data_test for test2017 (no captions), Data otherwise
Provider_init(split, tf, vf) ==
    IF split = "test2017" THEN [captions |-> <<>>, printed |-> FALSE]
    ELSE Data_init(split, tf, vf)

\* mutant of imread: the decode failure goes unnoticed
imread_never_none(path) == [file |-> path, transformed |-> FALSE]

\* cv2.imread
imread(path) == IF path \in unreadable THEN None
                ELSE [file |-> path, transformed |-> FALSE]

\* self._transform(image=image)['image']: only that the pipeline ran is kept,
\* the pixels (resize, random flips and colour changes, /255) are not modelled
transform(image) == [image EXCEPT !.transformed = TRUE]

\* if self._transform: image = self._transform(image=image)['image']
apply_transform(image) == IF transform_given THEN transform(image) ELSE image

transform_step == IF transform_given THEN <<"transform">> ELSE <<>>

\* mutant of image_captions_of: the comprehension without its filter
image_captions_unfiltered(annos, image_id) ==
    [i \in 1..Len(annos) |-> annos[i].captions]

\* [anno['captions'] for anno in self._captions if str(int(anno['image_id'])) == image_id]
RECURSIVE image_captions_of(_, _)
image_captions_of(annos, image_id) ==
    IF annos = <<>> THEN <<>>
    ELSE (IF str(Head(annos).image_id) = image_id
          THEN <<Head(annos).captions>> ELSE <<>>)
         \o image_captions_of(Tail(annos), image_id)

\* mutant of overwrite_loop: the first matching record wins
overwrite_loop_first(caps, image_captions) ==
    IF image_captions = <<>> THEN caps ELSE Head(image_captions)

\* captions = []; for cap in image_captions: captions = cap
RECURSIVE overwrite_loop(_, _)
overwrite_loop(caps, image_captions) ==
    IF image_captions = <<>> THEN caps
    ELSE overwrite_loop(Head(image_captions), Tail(image_captions))

\* random.randint(a, b): the values it can return; none raises ValueError
randint(a, b) == a..b

\* mutant of image_id_of: the stem compared as written, leading zeros kept
image_id_raw(image_path) == stem(image_path)

\* str(int(os.path.basename(image_path).split('.')[0]))
image_id_of(image_path) == str(int(stem(image_path)))

\* the steps of Data.__getitem__ after the image decoded
Data_caption_steps(image_path, image) ==
    LET image_id == image_id_of(image_path)
        image_captions == image_captions_of(captions, image_id)
        warn == IF image_captions = <<>> THEN <<"warn">> ELSE <<>>
        caps == overwrite_loop(<<>>, image_captions)
        draws == randint(0, Len(caps) - 1)
        base == [NoResult EXCEPT !.path = image_path,
                                 !.matched = (image_captions # <<>>),
                                 !.resolved = caps]
    IN IF draws = {}
       THEN {[base EXCEPT !.outcome = "ValueError",
                          !.steps = <<"imread", "lookup">> \o warn \o <<"randint">>]}
       ELSE {[base EXCEPT !.outcome = "ok",
                          !.steps = <<"imread", "lookup">> \o warn
                                    \o <<"randint", "tokenize">> \o transform_step,
                          !.caption = tokenizer(strip(caps[result + 1])),
                          !.image = apply_transform(image)] : result \in draws}

\* Data.__getitem__: the results one call can have
Data_getitem(idx) ==
    IF idx >= Len(image_paths)
    THEN {[NoResult EXCEPT !.outcome = "IndexError"]}
    ELSE LET image_path == image_paths[idx + 1]
             image == imread(image_path)
         IN IF image = None
            THEN {[NoResult EXCEPT !.outcome = "FileNotFoundError",
                                   !.steps = <<"imread">>, !.path = image_path]}
            ELSE Data_caption_steps(image_path, image)

\* Data_test.__getitem__
Data_test_getitem(idx) ==
    IF idx >= Len(image_paths)
    THEN {[NoResult EXCEPT !.outcome = "IndexError"]}
    ELSE LET image_path == image_paths[idx + 1]
             image == imread(image_path)
         IN IF image = None
            THEN {[NoResult EXCEPT !.outcome = "FileNotFoundError",
                                   !.steps = <<"imread">>, !.path = image_path]}
            ELSE {[NoResult EXCEPT !.outcome = "ok",
                                   !.steps = <<"imread">> \o transform_step,
                                   !.path = image_path,
                                   !.image = apply_transform(image)]}

\* Data.__len__ / Data_test.__len__
Data_len == Len(image_paths)

\* --------------------------------------------------- Dataloader.get_dataloader
provider_getitem(idx) ==
    IF image_split = "test2017" THEN Data_test_getitem(idx) ELSE Data_getitem(idx)

\* mutant of range: the indices start at one
range_from_one(n) == [i \in 1..n |-> i]

\* range(n)
range(n) == [i \in 1..n |-> i - 1]

\* Subset(dataset, range(self._subset)).__len__
Subset_len == Len(range(subset))

\* Subset(dataset, range(self._subset)).__getitem__
Subset_getitem(idx) ==
    IF idx >= Len(range(subset))
    THEN {[NoResult EXCEPT !.outcome = "IndexError"]}
    ELSE provider_getitem(range(subset)[idx + 1])

\* len(dataloader.dataset): "if self._subset" wraps the provider in a Subset
dataset_len == IF subset # 0 THEN Subset_len ELSE Data_len

dataset_getitem(idx) ==
    IF subset # 0 THEN Subset_getitem(idx) ELSE provider_getitem(idx)

\* ------------------------------------------------------ Dataloader._collate_fn
\* mutant of pad_sequence: every row padded to the tokenizer's ceiling
pad_sequence_to_ceiling(seqs) ==
    [i \in 1..Len(seqs) |->
        [j \in 1..max_length |-> IF j <= Len(seqs[i]) THEN seqs[i][j]
                                  ELSE padding_value]]

\* mutant of pad_sequence: the padding goes in front of the tokens
pad_sequence_left(seqs) ==
    LET max_len == Max({Len(seqs[i]) : i \in 1..Len(seqs)})
    IN [i \in 1..Len(seqs) |->
           [j \in 1..max_len |->
               IF j > max_len - Len(seqs[i])
               THEN seqs[i][j - (max_len - Len(seqs[i]))]
               ELSE padding_value]]

\* pad_sequence(captions, batch_first=True, padding_value=0)
pad_sequence(seqs) ==
    LET max_len == Max({Len(seqs[i]) : i \in 1..Len(seqs)})
    IN [i \in 1..Len(seqs) |->
           [j \in 1..max_len |-> IF j <= Len(seqs[i]) THEN seqs[i][j]
                                 ELSE padding_value]]

NotCollated == [outcome |-> "none", images |-> <<>>, captions |-> <<>>]

\* zip(*batch) of an empty list has nothing to unpack
collate_fn(b) ==
    IF b = <<>> THEN [NotCollated EXCEPT !.outcome = "ValueError"]
    ELSE LET images == [i \in 1..Len(b) |-> b[i][1]]
             caps == [i \in 1..Len(b) |-> b[i][2]]
         IN [outcome |-> "ok", images |-> images, captions |-> pad_sequence(caps)]

\* the samples a provider can return: a transformed image and a caption tensor
Samples ==
    {<<transform([file |-> f, transformed |-> FALSE]), tokenizer(strip(c))>> :
        f \in FileNames, c \in CaptionStrings}

\* ------------------------------------------------------------------- actions
\* mutant of GetItem: the lookup consumes the first caption record
GetItem_consumes(w, idx) ==
    /\ worker[w].pc = "idle"
    /\ idx \in 0..(dataset_len - 1)
    /\ \E res \in dataset_getitem(idx) :
           worker' = [worker EXCEPT ![w] =
                         [pc |-> "done", op |-> "get", idx |-> idx, res |-> res]]
    /\ captions' = IF captions = <<>> THEN captions ELSE Tail(captions)
    /\ UNCHANGED <<image_split, train_file, val_file, subset, image_paths,
                   unreadable, transform_given, init_printed, batch, collated>>

\* a worker calls dataset[idx]
GetItem(w, idx) ==
    /\ worker[w].pc = "idle"
    /\ idx \in 0..(dataset_len - 1)
    /\ \E res \in dataset_getitem(idx) :
           worker' = [worker EXCEPT ![w] =
                         [pc |-> "done", op |-> "get", idx |-> idx, res |-> res]]
    /\ UNCHANGED <<image_split, train_file, val_file, subset, image_paths,
                   unreadable, captions, transform_given,
                   init_printed, batch, collated>>

\* a worker calls len(dataset)
Length(w) ==
    /\ worker[w].pc = "idle"
    /\ worker' = [worker EXCEPT ![w] =
                     [pc |-> "done", op |-> "len", idx |-> 0,
                      res |-> [NoResult EXCEPT !.outcome = "ok", !.n = dataset_len]]]
    /\ UNCHANGED <<image_split, train_file, val_file, subset, image_paths,
                   unreadable, captions, transform_given,
                   init_printed, batch, collated>>

\* the caller takes the worker's result (or its exception)
Deliver(w) ==
    /\ worker[w].pc = "done"
    /\ worker' = [worker EXCEPT ![w] = Idle]
    /\ UNCHANGED <<image_split, train_file, val_file, subset, image_paths,
                   unreadable, captions, transform_given,
                   init_printed, batch, collated>>

\* the loader hands a batch to _collate_fn
Collate ==
    /\ collated.outcome = "none"
    /\ collated' = collate_fn(batch)
    /\ UNCHANGED <<image_split, train_file, val_file, subset, image_paths,
                   unreadable, captions, transform_given,
                   init_printed, worker, batch>>

\* ------------------------------------------------------------ specifications
\* the provider after construction, with or without a transform, only the
\* split's own caption file on disk
Init ==
    /\ image_split \in Splits
    /\ \E f \in CaptionFiles \cup {Missing} :
          /\ train_file = IF image_split = "train2017" THEN f ELSE Missing
          /\ val_file = IF image_split = "val2017" THEN f ELSE Missing
          /\ image_split = "test2017" => f = Missing
    /\ subset = 0
    /\ transform_given \in BOOLEAN
    /\ image_paths \in ImageDirs
    /\ unreadable \in SUBSET Range(image_paths)
    /\ captions = Provider_init(image_split, train_file, val_file).captions
    /\ init_printed = Provider_init(image_split, train_file, val_file).printed
    /\ worker = [w \in Workers |-> Idle]
    /\ batch = <<>>
    /\ collated = NotCollated

Next ==
    \E w \in Workers :
        \/ \E idx \in 0..MaxImages : GetItem(w, idx)
        \/ Length(w)
        \/ Deliver(w)

Spec == Init /\ [][Next]_vars

\* get_dataloader, which always passes a transform pipeline, over every
\* combination of caption files and subset sizes
InitLoader ==
    /\ image_split \in Splits
    /\ train_file \in LoaderFiles
    /\ val_file \in LoaderFiles
    /\ subset \in 0..MaxSubset
    /\ transform_given = TRUE
    /\ image_paths \in ImageDirs
    /\ unreadable \in SUBSET Range(image_paths)
    /\ captions = Provider_init(image_split, train_file, val_file).captions
    /\ init_printed = Provider_init(image_split, train_file, val_file).printed
    /\ worker = [w \in Workers |-> Idle]
    /\ batch = <<>>
    /\ collated = NotCollated

NextLoader ==
    \E w \in Workers :
        \/ \E idx \in 0..(MaxImages + MaxSubset) : GetItem(w, idx)
        \/ Length(w)
        \/ Deliver(w)

SpecLoader == InitLoader /\ [][NextLoader]_vars

\* _collate_fn on every batch of up to MaxBatch samples
InitCollate ==
    /\ image_split = "train2017"
    /\ train_file = Missing
    /\ val_file = Missing
    /\ subset = 0
    /\ transform_given = TRUE
    /\ image_paths = <<>>
    /\ unreadable = {}
    /\ captions = <<>>
    /\ init_printed = TRUE
    /\ worker = [w \in Workers |-> Idle]
    /\ batch \in SeqsUpTo(Samples, MaxBatch)
    /\ collated = NotCollated

NextCollate == Collate

SpecCollate == InitCollate /\ [][NextCollate]_vars

\* ---------------------------------------------------- vocabulary of the claims
\* the workers holding the result of a get on the train/val provider
DataGets ==
    {w \in Workers : worker[w].pc = "done" /\ worker[w].op = "get"
                     /\ image_split # "test2017"}

\* the image file a worker's index names in the unrestricted provider
PathOf(w) == image_paths[worker[w].idx + 1]

\* the gets whose index names an image file that decodes
DecodedGets ==
    {w \in DataGets : worker[w].idx < Len(image_paths) /\ PathOf(w) \notin unreadable}

\* the positions of the records whose image_id is the file's number
Matching(path) ==
    {k \in 1..Len(captions) : captions[k].image_id = int(stem(path))}

LastMatching(path) == Max(Matching(path))

Tokenizations(list) == {tokenizer(list[i]) : i \in 1..Len(list)}

NoCaptionSteps == <<"imread", "lookup", "warn", "randint">>

\* the caption file Data.__init__ opens for the split
SplitFile == IF image_split = "train2017" THEN train_file ELSE val_file

\* --------------------------------------------------------------------- claims
\* C1: for every non-empty batch, the image batch and the caption batch have
\* len(batch) rows and every caption row is as long as the longest caption of
\* that batch.
C1_CollateShape ==
    (collated.outcome # "none" /\ batch # <<>>) =>
        /\ collated.outcome = "ok"
        /\ Len(collated.images) = Len(batch)
        /\ Len(collated.captions) = Len(batch)
        /\ \A i \in 1..Len(batch) :
               /\ \A j \in 1..Len(batch) :
                      Len(collated.captions[i]) >= Len(batch[j][2])
               /\ \E j \in 1..Len(batch) :
                      Len(collated.captions[i]) = Len(batch[j][2])

C1_Witness ==
    /\ collated.outcome = "ok"
    /\ \E i, j \in 1..Len(batch) : Len(batch[i][2]) < Len(batch[j][2])

\* C2: row i of the caption batch is the i-th caption followed by zeros only,
\* and the rows (and the images) keep the order of the batch.
C2_RightPadding ==
    collated.outcome = "ok" =>
        \A i \in 1..Len(batch) :
            /\ collated.images[i] = batch[i][1]
            /\ Len(collated.captions[i]) >= Len(batch[i][2])
            /\ SubSeq(collated.captions[i], 1, Len(batch[i][2])) = batch[i][2]
            /\ \A j \in (Len(batch[i][2]) + 1)..Len(collated.captions[i]) :
                   collated.captions[i][j] = 0

C2_Witness ==
    /\ collated.outcome = "ok"
    /\ Len(batch) >= 2
    /\ Len(batch[1][2]) < Len(collated.captions[1])
    /\ batch[1][2] # batch[2][2]

\* C3 as stated: for a decoded image, whichever record matches its ID with a
\* non-empty captions list, the get returns the tokenization of one caption
\* of that record (of its only caption when it has one).
C3_AnyMatchingRecord ==
    \A w \in DecodedGets :
        \A k \in Matching(PathOf(w)) :
            captions[k].captions # <<>> =>
                /\ worker[w].res.outcome = "ok"
                /\ worker[w].res.caption \in Tokenizations(captions[k].captions)
                /\ Len(captions[k].captions) = 1 =>
                       worker[w].res.caption = tokenizer(captions[k].captions[1])

\* C3 as amended: the same, for the last record in file order that matches.
C3_LastMatchingRecord ==
    \A w \in DecodedGets :
        (/\ Matching(PathOf(w)) # {}
         /\ captions[LastMatching(PathOf(w))].captions # <<>>) =>
            LET list == captions[LastMatching(PathOf(w))].captions
            IN /\ worker[w].res.outcome = "ok"
               /\ worker[w].res.image =
                      [file |-> PathOf(w), transformed |-> transform_given]
               /\ ("transform" \in Range(worker[w].res.steps)) = transform_given
               /\ worker[w].res.caption \in Tokenizations(list)
               /\ Len(list) = 1 => worker[w].res.caption = tokenizer(list[1])

C3_Witness ==
    \E w \in DecodedGets :
        /\ stem(PathOf(w)) # str(int(stem(PathOf(w))))
        /\ Matching(PathOf(w)) # {}
        /\ Len(captions[LastMatching(PathOf(w))].captions) = 2
        /\ worker[w].res.caption =
               tokenizer(captions[LastMatching(PathOf(w))].captions[2])

\* C4: with several records matching the image's ID, the list the caption is
\* drawn from is the captions list of the last of them in file order; the
\* earlier ones are neither used nor merged in.
C4_LastRecordWins ==
    \A w \in DecodedGets :
        Matching(PathOf(w)) # {} =>
            LET list == captions[LastMatching(PathOf(w))].captions
            IN /\ worker[w].res.resolved = list
               /\ worker[w].res.outcome = "ok" =>
                      worker[w].res.caption \in Tokenizations(list)
               /\ list = <<>> => worker[w].res.outcome # "ok"

C4_Witness ==
    \E w \in DecodedGets :
        /\ Cardinality(Matching(PathOf(w))) = 2
        /\ worker[w].res.outcome = "ok"
        /\ \E k \in Matching(PathOf(w)) :
               Tokenizations(captions[k].captions) \ 
                   Tokenizations(captions[LastMatching(PathOf(w))].captions) # {}

\* C5 as stated: a decoded image whose ID matches no record makes every get
\* log the warning and fail with an IndexError, before tokenization and
\* transform.
C5_IndexError ==
    \A w \in DecodedGets :
        Matching(PathOf(w)) = {} =>
            /\ worker[w].res.outcome = "IndexError"
            /\ worker[w].res.steps = NoCaptionSteps

\* C5 as amended: the failure is the ValueError of random.randint(0, -1).
C5_ValueError ==
    \A w \in DecodedGets :
        Matching(PathOf(w)) = {} =>
            /\ worker[w].res.outcome = "ValueError"
            /\ worker[w].res.steps = NoCaptionSteps
            /\ worker[w].res.caption = <<>>
            /\ worker[w].res.image = None

C5_Witness ==
    \E w \in DecodedGets :
        /\ Matching(PathOf(w)) = {}
        /\ \E k \in 1..Len(captions) : captions[k].captions # <<>>

\* C6: with the split's caption file missing, construction logs and yields an
\* empty caption set, and every get of a decoded image then warns instead of
\* crashing.
C6_MissingFileNoCrash ==
    (image_split # "test2017" /\ ~SplitFile.exists) =>
        /\ captions = <<>>
        /\ init_printed
        /\ \A w \in DecodedGets :
               /\ "warn" \in Range(worker[w].res.steps)
               /\ worker[w].res.outcome = "ok"

\* C7: in both providers a get on an image that does not decode fails with
\* FileNotFoundError right after the decode: no lookup, no selection, no
\* tokenization, no transform, no sample.
C7_UndecodableImage ==
    \A w \in Workers :
        (/\ worker[w].pc = "done" /\ worker[w].op = "get"
         /\ worker[w].idx < Len(image_paths)
         /\ PathOf(w) \in unreadable) =>
            /\ worker[w].res.outcome = "FileNotFoundError"
            /\ worker[w].res.steps = <<"imread">>
            /\ worker[w].res.caption = <<>>
            /\ worker[w].res.image = None

C7_Witness ==
    /\ \E w \in DataGets :
          /\ worker[w].idx < Len(image_paths)
          /\ PathOf(w) \in unreadable
          /\ Matching(PathOf(w)) # {}
          /\ captions[LastMatching(PathOf(w))].captions # <<>>

\* C8: a loader with subset N > 0 has length N and its get(i), i < N, is
\* get(i) of the unrestricted provider; with subset 0 its length is the
\* number of image files.
C8_SubsetPrefix ==
    /\ subset > 0 =>
          /\ dataset_len = subset
          /\ \A i \in 0..(subset - 1) : dataset_getitem(i) = provider_getitem(i)
    /\ subset = 0 => dataset_len = Len(image_paths)
    /\ \A w \in Workers :
          /\ (worker[w].pc = "done" /\ worker[w].op = "len") =>
                 worker[w].res.n = IF subset > 0 THEN subset ELSE Len(image_paths)
          /\ (worker[w].pc = "done" /\ worker[w].op = "get") =>
                 /\ subset > 0 => worker[w].idx < subset
                 /\ worker[w].idx < Len(image_paths) =>
                        worker[w].res.path = PathOf(w)
                 /\ worker[w].idx >= Len(image_paths) =>
                        worker[w].res.outcome = "IndexError"

C8_Witness ==
    /\ subset = 1
    /\ Len(image_paths) = 2
    /\ \E w \in Workers :
          /\ worker[w].pc = "done" /\ worker[w].op = "get"
          /\ worker[w].res.outcome = "ok"
          /\ worker[w].res.path = image_paths[1]
    /\ \E w \in Workers :
          /\ worker[w].pc = "done" /\ worker[w].op = "len"
          /\ worker[w].res.n = 1

\* C9: no length() or get(index) of any worker, failing or not, changes the
\* caption store or the image-path list.
C9_StoreReadOnly ==
    [][captions' = captions /\ image_paths' = image_paths]_vars

C9_Witness ==
    /\ captions # <<>>
    /\ \E v, w \in DataGets :
          /\ v # w
          /\ worker[v].res.outcome = "ok"
          /\ worker[w].res.outcome \in {"ValueError", "FileNotFoundError"}

\* C10: every get of a decoded image whose resolved caption list is empty logs
\* the warning, also when a record matches with an empty list, and then fails
\* as it does for an image no record matches.
C10_WarnsOnEmptyList ==
    \A w \in DecodedGets :
        (\/ Matching(PathOf(w)) = {}
         \/ captions[LastMatching(PathOf(w))].captions = <<>>) =>
            /\ worker[w].res.outcome = "ValueError"
            /\ worker[w].res.steps = NoCaptionSteps

====
